---- MODULE Spec2Model ----
(***************************************************************************)
(* unique_kmers_evolution: the streaming scan of src/src/main.rs.          *)
(*                                                                         *)
(* The scan (main, lines 118-226) reads sequence records one at a time,    *)
(* slides a window of length k over each, canonicalises every window and   *)
(* counts the canonical k-mers seen at least twice ("solid").  Every       *)
(* SampleStride records it updates two sliding windows (growth and         *)
(* acceleration of the solid count), prints a status line, pushes a        *)
(* snapshot into a bounded channel read by the WebSocket handler, and      *)
(* decides whether to stop early.                                          *)
(*                                                                         *)
(* Bytes are modelled by their ASCII codes, so that the byte-wise          *)
(* lexicographic comparison of canonical_kmer is the comparison of the     *)
(* code.  The five numeric constants of the scan (10000, 50000, 20.0, 10   *)
(* and 100) are scaled down so that sampling points, window eviction, a    *)
(* full channel and the stop decision are all reached within a stream of   *)
(* MaxRecords records; each definition below states the value of the code. *)
(***************************************************************************)
EXTENDS Integers, Sequences, FiniteSets, TLC

\* ------------------------------------------------------------------ bounds

\* main.rs:173 samples when idx % 10000 == 0; the stride is scaled.
SampleStride == 2
\* main.rs:211 stops only when reads > 50000 = 5 strides; scaled, in strides.
MinReadsStrides == 1
\* main.rs:211 compares abs(avg_accel) with 20.0; scaled.
AccelLimit == 1
\* main.rs:180 and 189 keep at most 10 entries in each window; scaled.
WindowCap == 2
\* main.rs:125 creates the channel with capacity 100; scaled.
ChanCap == 3
\* Records the input file holds at most.
MaxRecords == 7
\* Longest record drawn over the two-letter alphabet.
MaxLen == 1
\* Largest window length k given on the command line.
MaxK == 3
\* WebSocket clients that may connect during a run.
MaxConns == 2
\* The occurrence counter of the specification saturates here.
OccCap == 3

\* ------------------------------------------------------------------ bytes

A == 65
C == 67
G == 71
N == 78
T == 84

\* The two-letter alphabet the generic records are drawn over.
Bases == {A, T}

\* ------------------------------------------------------ input collaborator

\* What open_reader finds at the path (main.rs:87-114): the file cannot be
\* opened, holds no byte, starts with a byte other than '>' and '@', or starts
\* a FASTA/FASTQ stream of records (both variants of RecordReader yield records
\* the same way, main.rs:36-47).
FileKinds == {"unreadable", "empty", "unknown", "records"}

SeqsOfLen(S, n) == [1..n -> S]
SeqsUpTo(S, n) == UNION {SeqsOfLen(S, m) : m \in 0..n}

\* The record of the k = 3 scenario, and one with the other two bases around a
\* pass-through symbol.
ScenarioRecord == <<A, A, A, T, T, T>>
ExtraRecords == {ScenarioRecord, <<C, N, G>>}

\* The bytes a window may hold: the four bases and a pass-through symbol.
Alphabet == {A, C, G, T, N}

\* The records a reader may yield (Vec<u8> of rec.seq(), main.rs:39 and 43).
Records == SeqsUpTo(Bases, MaxLen) \cup ExtraRecords

\* ------------------------------------------------------------ canonicalizer

\* The arm b'G' => b'C' is missing: G passes through.
complementNoG(c) ==
  CASE c = A -> T
    [] c = T -> A
    [] c = C -> G
    [] OTHER -> c

\* main.rs:54-60
complement(c) ==
  CASE c = A -> T
    [] c = T -> A
    [] c = C -> G
    [] c = G -> C
    [] OTHER -> c

\* The bytes are complemented in place, without the reversal.
ComplementOnly(kmer) ==
  [j \in 1..Len(kmer) |-> complement(kmer[j])]

\* main.rs:51-62: reversed, then complemented byte by byte.
reverse_complement(kmer) ==
  [j \in 1..Len(kmer) |-> complement(kmer[Len(kmer) + 1 - j])]

\* Slice ordering of Rust (lexicographic; a strict prefix is smaller).
RECURSIVE SliceLeq(_, _)
SliceLeq(a, b) ==
  IF a = <<>> THEN TRUE
  ELSE IF b = <<>> THEN FALSE
  ELSE IF a[1] < b[1] THEN TRUE
  ELSE IF a[1] > b[1] THEN FALSE
  ELSE SliceLeq(Tail(a), Tail(b))

\* The comparison is skipped: the reverse complement is always returned.
CanonicalAlwaysRC(kmer) == reverse_complement(kmer)

\* main.rs:65-72
canonical_kmer(kmer) ==
  LET rc == reverse_complement(kmer)
  IN  IF SliceLeq(kmer, rc) THEN kmer ELSE rc

\* --------------------------------------------------------- solidity tracker

\* A third sighting clears the flag again.
ObserveMapToggle(m, canonical) ==
  IF canonical \in DOMAIN m
  THEN [m EXCEPT ![canonical] = ~m[canonical]]
  ELSE [x \in DOMAIN m \cup {canonical} |-> IF x = canonical THEN FALSE ELSE m[x]]

\* main.rs:160-170, the map after one window: a new key enters with false, a
\* key holding false flips to true, a key holding true stays.
ObserveMap(m, canonical) ==
  IF canonical \in DOMAIN m
  THEN IF ~m[canonical] THEN [m EXCEPT ![canonical] = TRUE] ELSE m
  ELSE [x \in DOMAIN m \cup {canonical} |-> IF x = canonical THEN FALSE ELSE m[x]]

\* Every sighting after the first is counted.
ObserveCountEvery(m, n, canonical) ==
  IF canonical \in DOMAIN m THEN n + 1 ELSE n

\* A sighting of a solid key takes its count back.
ObserveCountToggle(m, n, canonical) ==
  IF canonical \in DOMAIN m
  THEN IF m[canonical] THEN n - 1 ELSE n + 1
  ELSE n

\* main.rs:160-170, the counter after one window: +1 exactly on the flip.
ObserveCount(m, n, canonical) ==
  IF canonical \in DOMAIN m /\ ~m[canonical] THEN n + 1 ELSE n

\* -------------------------------------------------------- convergence monitor

\* main.rs:173
IsSamplePoint(index) == index % SampleStride = 0

\* Overflow clears the window instead of dropping the oldest entry.
PushWindowReset(h, x) ==
  LET pushed == Append(h, x)
  IN  IF Len(pushed) > WindowCap THEN <<x>> ELSE pushed

\* main.rs:179-182 and 188-191: push, then remove(0) when longer than the cap.
PushWindow(h, x) ==
  LET pushed == Append(h, x)
  IN  IF Len(pushed) > WindowCap THEN Tail(pushed) ELSE pushed

\* The length test is off by one: three growth values are waited for.
NextAccelLate(gh, ah) ==
  IF Len(gh) > 2
  THEN PushWindow(ah, gh[Len(gh)] - gh[Len(gh) - 1])
  ELSE ah

\* main.rs:185-192: an acceleration is produced once two growth values exist.
NextAccel(gh, ah) ==
  IF Len(gh) >= 2
  THEN PushWindow(ah, gh[Len(gh)] - gh[Len(gh) - 1])
  ELSE ah

RECURSIVE Sum(_)
Sum(h) == IF h = <<>> THEN 0 ELSE h[1] + Sum(Tail(h))

Abs(x) == IF x < 0 THEN -x ELSE x

\* main.rs:196-200 and 211: abs(avg_accel) < 20.0 with avg_accel = sum / len, or
\* 0.0 for the empty window.  The quotient of an i32 sum by a length of at most
\* 10 is below 20.0 in f32 exactly when |sum| < 20 * len (rounding is monotone
\* and 20.0 is representable), so the comparison is made on integers.
AccelBelowLimit(ah) ==
  IF ah # <<>> THEN Abs(Sum(ah)) < AccelLimit * Len(ah) ELSE 0 < AccelLimit

\* The record-count gate lets the sample at MinReads itself stop the scan.
StopConditionAtGate(reads, ah) ==
  reads >= MinReadsStrides * SampleStride /\ AccelBelowLimit(ah)

\* The record-count gate is forgotten: the mean acceleration alone decides.
StopConditionNoGate(reads, ah) == AccelBelowLimit(ah)

\* main.rs:211
MinReads == MinReadsStrides * SampleStride
StopCondition(reads, ah) == reads > MinReads /\ AccelBelowLimit(ah)

\* --------------------------------------------------------------- the state

VARIABLES
  k,                   \* args.k (main.rs:120)
  file,                \* what open_reader finds at args.input
  pc,                  \* where main stands: "open", "read", "kmers", "endrec",
                       \* "send" (awaiting tx.send) or "done" (main returned)
  result,              \* how main returned: "running" until then
  unique_kmers,        \* main.rs:122, canonical k-mer -> already solid
  unique_solid_kmers,  \* main.rs:123
  idx,                 \* main.rs:143
  sequence,            \* main.rs:150, the record being processed
  i,                   \* main.rs:157, the window offset
  prev_kmers,          \* main.rs:145
  growth_history,      \* main.rs:146
  accel_history,       \* main.rs:147
  chan,                \* main.rs:125, the snapshots queued in the channel
  server,              \* main.rs:136-140, the task serving the route that owns rx
  conn,                \* main.rs:75-84, each connection's handler
  lockq,               \* main.rs:77, the handlers queued on the receiver's lock
  lost,                \* history: the snapshots taken and not written (main.rs:80-81)
  occ,                 \* history: occurrences of each canonical k-mer so far
  win,                 \* history: the windows observed in the current record
  lines,               \* history: the status lines printed (main.rs:202-205)
  nsent,               \* history: the sends that completed (main.rs:208)
  nread,               \* history: the records next_record() has yielded
  delivered,           \* history: the frames written to a socket (main.rs:80)
  everConnected,       \* history: some client has connected
  w,                   \* the window handed to the canonicalizer on its own
  out                  \* what the canonicalizer returned for w, call by call

scanVars == <<pc, result, unique_kmers, unique_solid_kmers, idx, sequence, i,
              prev_kmers, growth_history, accel_history>>
histVars == <<occ, win, lines, nsent, nread>>
sinkVars == <<server, conn, lockq, delivered, lost, everConnected>>
canonVars == <<w, out>>
vars == <<k, file, scanVars, chan, histVars, sinkVars, canonVars>>

Conns == 1..MaxConns

\* main.rs:119-147: the state after construction, before open_reader runs.
InitMain ==
  /\ pc = "open"
  /\ result = "running"
  /\ unique_kmers = [x \in {} |-> FALSE]
  /\ unique_solid_kmers = 0
  /\ idx = 0
  /\ sequence = <<>>
  /\ i = 0
  /\ prev_kmers = 0
  /\ growth_history = <<>>
  /\ accel_history = <<>>
  /\ chan = <<>>
  /\ server = "starting"
  /\ conn = [c \in Conns |-> "none"]
  /\ lockq = <<>>
  /\ lost = 0
  /\ occ = [x \in {} |-> 0]
  /\ win = <<>>
  /\ lines = <<>>
  /\ nsent = 0
  /\ nread = 0
  /\ delivered = <<>>
  /\ everConnected = FALSE

Init ==
  /\ k \in 1..MaxK
  /\ file \in FileKinds
  /\ InitMain
  /\ w = <<>>
  /\ out = <<>>

\* ----------------------------------------------------------------- the scan

\* The peek at the first byte is skipped: an empty file gets a reader.
OpenOutcomeNoPeek(f) ==
  CASE f = "unreadable" -> "open_error"
    [] f = "unknown"    -> "open_error"
    [] OTHER            -> "running"

\* main.rs:87-114 and 142: File::open fails, the file is empty or of unknown
\* format (main returns the error), or a reader is built.
OpenOutcome(f) ==
  CASE f = "unreadable" -> "open_error"
    [] f = "empty"      -> "open_error"
    [] f = "unknown"    -> "open_error"
    [] OTHER            -> "running"

open_reader ==
  /\ pc = "open"
  /\ result' = OpenOutcome(file)
  /\ pc' = IF OpenOutcome(file) = "running" THEN "read" ELSE "done"
  /\ UNCHANGED <<k, file, canonVars, unique_kmers, unique_solid_kmers, idx, sequence, i,
                 prev_kmers, growth_history, accel_history, chan, histVars,
                 sinkVars>>

\* main.rs:149: next_record() yields None, the loop ends and main returns Ok.
EndOfStream ==
  /\ pc = "read"
  /\ pc' = "done"
  /\ result' = "eof"
  /\ UNCHANGED <<k, file, canonVars, unique_kmers, unique_solid_kmers, idx, sequence, i,
                 prev_kmers, growth_history, accel_history, chan, histVars,
                 sinkVars>>

\* The failure is recorded and the loop goes on with the next record.
DecodeFailureContinue ==
  /\ pc = "read"
  /\ pc' = "read"
  /\ result' = "decode_error"
  /\ idx' = idx + 1
  /\ UNCHANGED <<k, file, canonVars, unique_kmers, unique_solid_kmers, sequence, i,
                 prev_kmers, growth_history, accel_history, chan, histVars,
                 sinkVars>>

\* main.rs:149-150: next_record() yields Some(Err), which `?` returns.
DecodeFailure ==
  /\ pc = "read"
  /\ pc' = "done"
  /\ result' = "decode_error"
  /\ UNCHANGED <<k, file, canonVars, unique_kmers, unique_solid_kmers, idx, sequence, i,
                 prev_kmers, growth_history, accel_history, chan, histVars,
                 sinkVars>>

\* The length test is off by one: a record of length k - 1 is not dropped.
IsShortStrict(seq) == Len(seq) + 1 < k

\* main.rs:152
IsShort(seq) == Len(seq) < k

\* main.rs:149-157: next_record() yields a record; one shorter than k only
\* advances idx and is dropped (152-155), any other enters the window loop at
\* offset 0.
ReadRecord(seq) ==
  /\ pc = "read"
  /\ idx < MaxRecords
  /\ IF IsShort(seq)
     THEN /\ sequence' = <<>>
          /\ idx' = idx + 1
          /\ pc' = "read"
     ELSE /\ sequence' = seq
          /\ idx' = idx
          /\ pc' = "kmers"
  /\ nread' = nread + 1
  /\ i' = 0
  /\ win' = <<>>
  /\ UNCHANGED <<k, file, canonVars, result, unique_kmers, unique_solid_kmers, prev_kmers,
                 growth_history, accel_history, chan, occ, lines, nsent,
                 sinkVars>>

next_record == \E seq \in Records : ReadRecord(seq)

\* history: one more occurrence of a canonical k-mer, saturating at OccCap.
CountOcc(o, canonical) ==
  [x \in DOMAIN o \cup {canonical} |->
     LET old == IF x \in DOMAIN o THEN o[x] ELSE 0
     IN  IF x = canonical /\ old < OccCap THEN old + 1 ELSE old]

\* main.rs:157-171: one iteration of the window loop.
Observe ==
  /\ pc = "kmers"
  /\ LET kmer == SubSeq(sequence, i + 1, i + k)
         canonical == canonical_kmer(kmer)
     IN  /\ unique_kmers' = ObserveMap(unique_kmers, canonical)
         /\ unique_solid_kmers' =
              ObserveCount(unique_kmers, unique_solid_kmers, canonical)
         /\ occ' = CountOcc(occ, canonical)
         /\ win' = Append(win, kmer)
  /\ IF i < Len(sequence) - k
     THEN /\ i' = i + 1
          /\ pc' = "kmers"
     ELSE /\ i' = i
          /\ pc' = "endrec"
  /\ UNCHANGED <<k, file, canonVars, result, idx, sequence, prev_kmers, growth_history,
                 accel_history, chan, lines, nsent, nread,
                 sinkVars>>

\* main.rs:202-205: the status line, with each average as (sum, length).
StatusLine(reads, kmers, gh, ah) ==
  [reads |-> reads, kmers |-> kmers,
   growth |-> <<Sum(gh), Len(gh)>>, accel |-> <<Sum(ah), Len(ah)>>]

\* main.rs:173-208 up to the await of tx.send, or main.rs:222 off a sampling
\* point, where the iteration ends and the record is dropped.
EndRecord ==
  /\ pc = "endrec"
  /\ IF IsSamplePoint(idx)
     THEN LET reads == idx
              kmers == unique_solid_kmers
              growth == kmers - prev_kmers
              gh == PushWindow(growth_history, growth)
              ah == NextAccel(gh, accel_history)
          IN  /\ growth_history' = gh
              /\ accel_history' = ah
              /\ lines' = Append(lines, StatusLine(reads, kmers, gh, ah))
              /\ pc' = "send"
              /\ idx' = idx
              /\ UNCHANGED <<sequence, i, win>>
     ELSE /\ idx' = idx + 1
          /\ pc' = "read"
          /\ sequence' = <<>>
          /\ i' = 0
          /\ win' = <<>>
          /\ UNCHANGED <<growth_history, accel_history, lines>>
  /\ UNCHANGED <<k, file, canonVars, result, unique_kmers, unique_solid_kmers,
                 prev_kmers, chan, occ, nsent, nread, sinkVars>>

\* main.rs:208-222: the send completes (the receiver is alive and the channel
\* holds fewer than its capacity), then the stop decision: break (211-217), or
\* prev_kmers and idx advance (219, 222) and the record is dropped.
SendOk ==
  /\ pc = "send"
  /\ server # "failed"
  /\ Len(chan) < ChanCap
  /\ chan' = Append(chan, <<idx, unique_solid_kmers>>)
  /\ nsent' = nsent + 1
  /\ IF StopCondition(idx, accel_history)
     THEN /\ pc' = "done"
          /\ result' = "stop"
          /\ UNCHANGED <<prev_kmers, idx, sequence, i, win>>
     ELSE /\ pc' = "read"
          /\ result' = result
          /\ prev_kmers' = unique_solid_kmers
          /\ idx' = idx + 1
          /\ sequence' = <<>>
          /\ i' = 0
          /\ win' = <<>>
  /\ UNCHANGED <<k, file, canonVars, unique_kmers, unique_solid_kmers,
                 growth_history, accel_history, occ, lines, nread, sinkVars>>

\* The failed send takes the map and the counter down with it.
SendFailClears ==
  /\ pc = "send"
  /\ server = "failed"
  /\ pc' = "done"
  /\ result' = "send_error"
  /\ unique_kmers' = [x \in {} |-> FALSE]
  /\ unique_solid_kmers' = 0
  /\ UNCHANGED <<k, file, canonVars, idx, sequence, i, prev_kmers,
                 growth_history, accel_history, chan, histVars, sinkVars>>

\* main.rs:208: the receiver has been dropped, send returns Err and `?`
\* returns it.
SendFail ==
  /\ pc = "send"
  /\ server = "failed"
  /\ pc' = "done"
  /\ result' = "send_error"
  /\ UNCHANGED <<k, file, canonVars, unique_kmers, unique_solid_kmers, idx, sequence, i,
                 prev_kmers, growth_history, accel_history, chan, histVars,
                 sinkVars>>

ScanNext ==
  \/ open_reader
  \/ EndOfStream
  \/ DecodeFailure
  \/ next_record
  \/ Observe
  \/ EndRecord
  \/ SendOk
  \/ SendFail

\* ------------------------------------------------------------ the sink side

\* The tasks of the runtime end when main returns (main.rs:117, 225).
Running == pc # "done"

\* main.rs:136-140: the spawned task binds 127.0.0.1:3030 and serves the
\* route, or fails to bind and panics: the task is dropped with the route and
\* the receiver it owns (main.rs:126-134), which closes the channel and drops
\* what it holds.
ServerBind ==
  /\ Running
  /\ server = "starting"
  /\ \/ /\ server' = "listening"
        /\ chan' = chan
     \/ /\ server' = "failed"
        /\ chan' = <<>>
  /\ UNCHANGED <<k, file, canonVars, scanVars, histVars, conn, lockq, delivered, lost,
                 everConnected>>

\* main.rs:129-134 and 75-77: a client upgrades; its handler splits the socket
\* and queues on the receiver's lock (tokio's Mutex serves waiters in order).
\* Connections are numbered in the order they arrive.
Connect(c) ==
  /\ Running
  /\ server = "listening"
  /\ conn[c] = "none"
  /\ \A d \in Conns : d < c => conn[d] # "none"
  /\ conn' = [conn EXCEPT ![c] = "locking"]
  /\ lockq' = Append(lockq, c)
  /\ everConnected' = TRUE
  /\ UNCHANGED <<k, file, canonVars, scanVars, chan, histVars, server, delivered, lost>>

\* The handler that holds the receiver's lock: the first of the queue.
Holder == IF lockq = <<>> THEN 0 ELSE Head(lockq)

\* The lock is taken for each recv() and released after it: any handler that
\* has connected may take the next snapshot.
LockPerMessage(c) == TRUE

\* main.rs:77: rx.lock().await has returned in handler c, whose guard lives
\* until the handler returns.
HoldsLock(c) == Holder = c

\* main.rs:77-80: with the lock held, recv() takes the oldest snapshot and the
\* frame "{reads} {kmers}" (kept here as the pair it prints) is written to the
\* socket; the loop goes back to recv().  The snapshot in hand is seen by no
\* other task, so taking and writing it is one step.
RecvAndSend(c) ==
  /\ Running
  /\ conn[c] = "locking"
  /\ HoldsLock(c)
  /\ chan # <<>>
  /\ chan' = Tail(chan)
  /\ delivered' = Append(delivered, <<c, Head(chan)>>)
  /\ UNCHANGED <<k, file, canonVars, scanVars, histVars, server, conn, lockq, lost,
                 everConnected>>

\* main.rs:77-84: the write of the snapshot taken fails (the client is gone);
\* the loop breaks, the snapshot is dropped and the lock is released.
RecvAndBreak(c) ==
  /\ Running
  /\ conn[c] = "locking"
  /\ HoldsLock(c)
  /\ chan # <<>>
  /\ chan' = Tail(chan)
  /\ lost' = lost + 1
  /\ conn' = [conn EXCEPT ![c] = "closed"]
  /\ lockq' = SelectSeq(lockq, LAMBDA d : d # c)
  /\ UNCHANGED <<k, file, canonVars, scanVars, histVars, server, delivered, everConnected>>

handle_connection ==
  \E c \in Conns : Connect(c) \/ RecvAndSend(c) \/ RecvAndBreak(c)

Next == ScanNext \/ ServerBind \/ handle_connection

Spec == Init /\ [][Next]_vars

\* ------------------------------------------------- the canonicalizer alone

\* main.rs:158: a window of k bytes, any of them a base or a pass-through.
CanonInit ==
  /\ k \in 1..MaxK
  /\ file = "records"
  /\ InitMain
  /\ w \in SeqsOfLen(Alphabet, k)
  /\ out = <<>>

\* main.rs:65-72: canonical_kmer(w)
Canonicalize ==
  /\ out = <<>>
  /\ out' = <<canonical_kmer(w)>>
  /\ UNCHANGED <<k, file, scanVars, chan, histVars, sinkVars, w>>

\* main.rs:51-72: canonical_kmer(reverse_complement(w))
CanonicalizeRC ==
  /\ Len(out) = 1
  /\ out' = Append(out, canonical_kmer(reverse_complement(w)))
  /\ UNCHANGED <<k, file, scanVars, chan, histVars, sinkVars, w>>

\* main.rs:65-72: canonical_kmer(canonical_kmer(w))
CanonicalizeAgain ==
  /\ Len(out) = 2
  /\ out' = Append(out, canonical_kmer(out[1]))
  /\ UNCHANGED <<k, file, scanVars, chan, histVars, sinkVars, w>>

CanonNext == Canonicalize \/ CanonicalizeRC \/ CanonicalizeAgain

CanonSpec == CanonInit /\ [][CanonNext]_vars

\* ------------------------------------------------------------------ claims

\* Occurrences of a canonical k-mer in the windows observed so far.
OccOf(o, c) == IF c \in DOMAIN o THEN o[c] ELSE 0

\* An entry of the map: "absent", "false" or "true".
EntryOf(m, c) ==
  IF c \in DOMAIN m THEN (IF m[c] THEN "true" ELSE "false") ELSE "absent"

\* C1: the solid counter is the number of distinct canonical k-mers that have
\* occurred at least twice in the windows observed so far: one seen once
\* contributes 0, one seen twice or more contributes exactly 1.
C1_SolidCountsRecurring ==
  unique_solid_kmers = Cardinality({c \in DOMAIN occ : occ[c] >= 2})

\* C1 witness: a k-mer seen three times beside one seen once, counted once.
C1_Witness ==
  /\ \E c \in DOMAIN occ : occ[c] >= 3
  /\ \E c \in DOMAIN occ : occ[c] = 1
  /\ unique_solid_kmers = 1

\* C2: an entry only moves absent -> false -> true, one step at a time: no
\* entry is removed, no flag goes back to false, a key enters at its first
\* occurrence, its flag flips exactly at its second, and the flips are exactly
\* the increments of the solid counter, each by one.
C2_EntryLifecycle ==
  [][LET keys == DOMAIN unique_kmers \cup DOMAIN unique_kmers'
             \cup DOMAIN occ \cup DOMAIN occ'
         flipped == {c \in keys : /\ EntryOf(unique_kmers, c) = "false"
                                  /\ EntryOf(unique_kmers', c) = "true"}
     IN  /\ \A c \in keys :
              /\ <<EntryOf(unique_kmers, c), EntryOf(unique_kmers', c)>> \in
                   {<<"absent", "absent">>, <<"absent", "false">>,
                    <<"false", "false">>, <<"false", "true">>,
                    <<"true", "true">>}
              /\ (EntryOf(unique_kmers, c) = "absent"
                    /\ EntryOf(unique_kmers', c) = "false")
                 <=> (OccOf(occ, c) = 0 /\ OccOf(occ', c) = 1)
              /\ c \in flipped <=> (OccOf(occ, c) = 1 /\ OccOf(occ', c) = 2)
         /\ Cardinality(flipped) <= 1
         /\ unique_solid_kmers' = unique_solid_kmers + Cardinality(flipped)]_vars

\* C2 witness: a key that went through both steps and was seen again, beside
\* a key still waiting for its second occurrence.
C2_Witness ==
  /\ \E c \in DOMAIN unique_kmers : unique_kmers[c] /\ occ[c] >= 3
  /\ \E c \in DOMAIN unique_kmers : ~unique_kmers[c] /\ occ[c] = 1
  /\ pc = "kmers"

\* An observe step: one window of the current record is taken.
IsObserveStep == pc = "kmers" /\ Len(win') = Len(win) + 1

\* C3: an observe step leaves the solid counter or adds one to it; every other
\* step (record skip, sampling, send, the sink's steps) leaves it unchanged.
C3_CounterSteps ==
  [][/\ unique_solid_kmers' >= unique_solid_kmers
     /\ unique_solid_kmers' <= unique_solid_kmers + 1
     /\ ~IsObserveStep => unique_solid_kmers' = unique_solid_kmers]_vars

\* C3 witness: the counter has grown twice, two samples have been sent and
\* the record at the third sampling index was skipped as too short.
C3_Witness ==
  /\ unique_solid_kmers >= 2
  /\ nsent = 2
  /\ Len(lines) = 2
  /\ pc = "read"
  /\ idx = 2 * SampleStride + 1

\* Status lines printed for record index j.
LinesAt(j) == Cardinality({n \in DOMAIN lines : lines[n].reads = j})

\* C4: every record whose index is a multiple of the stride produces exactly
\* one sample (a status line and a pushed snapshot), whatever its length, and
\* no other record produces one.  Stated over the records processed so far.
C4_SampleAtEveryStride ==
  /\ \A j \in 0..(idx - 1) :
       LinesAt(j) = IF j % SampleStride = 0 THEN 1 ELSE 0
  /\ nsent = Cardinality({j \in 0..(idx - 1) : j % SampleStride = 0})
               + (IF result = "stop" THEN 1 ELSE 0)

\* The stop condition as the claim states it.
C5_StopCond ==
  /\ idx > MinReads
  /\ IF accel_history = <<>>
     THEN 0 < AccelLimit
     ELSE Abs(Sum(accel_history)) < AccelLimit * Len(accel_history)

\* The scan leaves a sampling point.
C5_LeavesSample == pc = "send" /\ pc' # "send"
C5_Stops == pc' = "done" /\ result' = "stop" /\ idx' = idx
C5_Continues == pc' = "read" /\ result' = "running" /\ idx' = idx + 1
C5_StopIsFinal ==
  result = "stop" => UNCHANGED <<idx, sequence, unique_kmers, occ, win, lines>>

\* C5 as claimed: at every sample the scan stops if and only if the record
\* index exceeds MinReads and the mean acceleration is below the limit in
\* absolute value; after a stop nothing more is read or observed, otherwise the
\* scan goes on to the next record.
C5_StopIffAtEverySample ==
  [][/\ C5_LeavesSample => IF C5_StopCond THEN C5_Stops ELSE C5_Continues
     /\ C5_StopIsFinal]_vars

\* C5 amended: the same at every sample whose snapshot send completes; a sample
\* whose send fails ends the scan with the send's error, without a decision and
\* without reading further.
C5_StopIffAfterSend ==
  [][/\ C5_LeavesSample =>
          IF chan' = Append(chan, <<idx, unique_solid_kmers>>)
          THEN IF C5_StopCond THEN C5_Stops ELSE C5_Continues
          ELSE pc' = "done" /\ result' = "send_error" /\ idx' = idx
     /\ C5_StopIsFinal]_vars

\* C5 witness: four samples were taken, the third passed the decision with the
\* gate open and the fourth stopped the scan.
C5_Witness ==
  /\ result = "stop"
  /\ Len(lines) = 4
  /\ lines[3].reads > MinReads

\* Growth delta of the j-th sample, from the status lines.
SampleDelta(j) ==
  lines[j].kmers - (IF j = 1 THEN 0 ELSE lines[j - 1].kmers)

Min(a, b) == IF a < b THEN a ELSE b

\* C6: both windows hold at most WindowCap entries, and after n samples the
\* growth window holds the deltas of the last min(n, WindowCap) samples, oldest
\* first.
C6_WindowsAreRecent ==
  /\ Len(growth_history) <= WindowCap
  /\ Len(accel_history) <= WindowCap
  /\ LET n == Len(lines)
         m == Min(n, WindowCap)
     IN  /\ Len(growth_history) = m
         /\ \A j \in 1..m : growth_history[j] = SampleDelta(n - m + j)

\* C6 witness: both windows are full and have evicted, and the growth window
\* holds two different deltas.
C6_Witness ==
  /\ Len(lines) >= WindowCap + 2
  /\ Len(accel_history) = WindowCap
  /\ growth_history[1] # growth_history[WindowCap]

\* C7: while the server listens and no client has connected, the scan is never stuck: it has
\* terminated or its next step (in particular a pending send) can be taken.
C7_NeverStuckWithoutClient ==
  (server = "listening" /\ ~everConnected) => (pc = "done" \/ ENABLED ScanNext)

\* The k = 3 scenario: the stream's first record is AAATTT and its window loop
\* has completed (the record is still in hand: at the end of the loop, or at
\* the sample that follows it).
C8_ScenarioDone ==
  /\ k = 3
  /\ idx = 0
  /\ sequence = ScenarioRecord
  /\ pc \in {"endrec", "send"}

C8_Windows == <<(<<A, A, A>>), (<<A, A, T>>), (<<A, T, T>>), (<<T, T, T>>)>>

\* C8 as claimed: the four windows are observed left to right, AAT and ATT have
\* distinct canonical forms, TTT has the canonical form of AAA, and the solid
\* count after the record is 1.
C8_ScenarioCountsOne ==
  C8_ScenarioDone =>
    /\ win = C8_Windows
    /\ canonical_kmer(<<A, A, T>>) # canonical_kmer(<<A, T, T>>)
    /\ canonical_kmer(<<T, T, T>>) = canonical_kmer(<<A, A, A>>)
    /\ unique_solid_kmers = 1

\* C8 amended: ATT is the reverse complement of AAT, so both have the canonical
\* form AAT, as TTT has that of AAA: two keys, each seen twice, solid count 2.
C8_ScenarioCountsTwo ==
  C8_ScenarioDone =>
    /\ win = C8_Windows
    /\ canonical_kmer(<<A, A, T>>) = canonical_kmer(<<A, T, T>>)
    /\ canonical_kmer(<<T, T, T>>) = canonical_kmer(<<A, A, A>>)
    /\ DOMAIN unique_kmers = {<<A, A, A>>, <<A, A, T>>}
    /\ unique_solid_kmers = 2

\* C8 witness: the record AAATTT was observed and the sample after it printed
\* its count.
C8_Witness ==
  /\ C8_ScenarioDone
  /\ pc = "send"
  /\ Len(lines) = 1

\* Nothing was counted, sampled or sent.
C9_NothingDone ==
  /\ unique_solid_kmers = 0
  /\ idx = 0
  /\ lines = <<>>
  /\ nsent = 0
  /\ chan = <<>>

\* C9 as claimed: on an empty input the scan ends in success, with solid count
\* 0, record index 0 and nothing emitted.
C9_EmptyEndsCleanly ==
  (file = "empty" /\ pc = "done") => (result = "eof" /\ C9_NothingDone)

\* C9 amended: on an empty input file the scan ends with open_reader's error,
\* with solid count 0, record index 0 and nothing emitted; a stream that opens
\* and ends before its first record ends in success with the same.
C9_EmptyEndsInError ==
  /\ (file = "empty" /\ pc = "done") => (result = "open_error" /\ C9_NothingDone)
  /\ (result = "eof" /\ idx = 0) => C9_NothingDone

\* C9 witness: the scan of an empty file has ended.
C9_Witness ==
  /\ file = "empty"
  /\ pc = "done"

\* What the scan owns and has emitted.
C10_ScanState ==
  <<unique_kmers, unique_solid_kmers, idx, growth_history, accel_history,
    prev_kmers, occ, win, lines, nsent, chan>>

\* C10: a decode failure ends the scan at once with an error, between two
\* records, and the map, the counter, both windows and what was emitted stay as
\* the last processed record left them, then and ever after.
C10_DecodeFailureIsFatal ==
  [][/\ (result # "decode_error" /\ result' = "decode_error") =>
          /\ pc = "read"
          /\ pc' = "done"
          /\ UNCHANGED C10_ScanState
     /\ result = "decode_error" => UNCHANGED <<pc, result, C10_ScanState>>]_vars

\* C10 witness: the decode failure came after records were counted and
\* sampled.
C10_Witness ==
  /\ result = "decode_error"
  /\ idx >= 3
  /\ unique_solid_kmers >= 1
  /\ Len(lines) >= 2

\* C11: a record shorter than k is dropped without a trace and without an
\* error: the step that reads it leaves the map, the solid counter and the
\* occurrence history unchanged, observes no window, advances idx by exactly
\* one and leaves the scan running at the next next_record() call.
C11_ShortRecordIsSkipped ==
  [][\A seq \in Records :
       (Len(seq) < k /\ ReadRecord(seq)) =>
          /\ UNCHANGED <<unique_kmers, unique_solid_kmers, occ, result>>
          /\ win' = <<>>
          /\ idx' = idx + 1
          /\ pc' = "read"
          /\ result' = "running"]_vars

\* Record 0 was sampled, record 2 (a sampling index) was too short and left
\* no status line; the solid counter it met was not zero.
C11_Witness ==
  /\ pc = "read"
  /\ result = "running"
  /\ idx = 3
  /\ nread = 3
  /\ Len(lines) = 1
  /\ lines[1].reads = 0
  /\ unique_solid_kmers >= 1

\* C12: over windows of bases and pass-through bytes, canonical_kmer gives a
\* window and its reverse complement the same canonical form.
C12_CanonicalOfReverseComplement ==
  Len(out) >= 2 => out[2] = out[1]

\* C12 witness: a window with a pass-through byte whose canonical form is its
\* reverse complement, not itself.
C12_Witness ==
  /\ Len(out) >= 2
  /\ \E j \in DOMAIN w : w[j] = N
  /\ \E j \in DOMAIN w : w[j] = G
  /\ out[1] # w
  /\ out[2] = reverse_complement(w)

\* C13: canonical_kmer is idempotent, and a window equal to its own reverse
\* complement is its own canonical form.
C13_CanonicalIdempotent ==
  /\ Len(out) = 3 => out[3] = out[1]
  /\ (Len(out) >= 1 /\ w = reverse_complement(w)) => out[1] = w

\* C13 witness: the second call was made on a canonical form that differs from
\* the window it came from.
C13_Witness ==
  /\ Len(out) = 3
  /\ Len(w) = MaxK
  /\ out[1] # w
  /\ out[3] = out[1]

\* C14: at every sampling point the status line printed and the snapshot
\* pushed carry the number of records read so far, the record just processed
\* included, and the solid count of that moment.
C14_SampleCountsRecords ==
  [][/\ Len(lines') > Len(lines) =>
          /\ lines'[Len(lines')].reads = nread
          /\ lines'[Len(lines')].kmers = unique_solid_kmers
     /\ Len(chan') > Len(chan) =>
          chan'[Len(chan')] = <<nread, unique_solid_kmers>>]_vars

\* Every sample taken so far has the same growth delta.
C15_EqualDeltas == \A j \in DOMAIN lines : SampleDelta(j) = SampleDelta(1)

\* At a sampling point reached with equal deltas, every acceleration in the
\* window is 0 and so is the sum the status line averages.
C15_AccelIsZero ==
  (pc = "send" /\ C15_EqualDeltas) =>
     /\ \A j \in DOMAIN accel_history : accel_history[j] = 0
     /\ lines[Len(lines)].accel[1] = 0

\* C15 as claimed: while every sample's growth delta is the same, every
\* acceleration is 0 and so is their mean, and the scan stops at the first
\* sample whose record index exceeds MinReads, and at no earlier one.
C15_EqualDeltasStopAtGate ==
  [][/\ C15_AccelIsZero
     /\ (C5_LeavesSample /\ C15_EqualDeltas) =>
          IF idx > MinReads THEN C5_Stops ELSE result' # "stop"]_vars

\* C15 amended: the same, at the first such sample whose snapshot send
\* completes; a failed send ends the scan with its error instead.
C15_EqualDeltasStopAfterSend ==
  [][/\ C15_AccelIsZero
     /\ (C5_LeavesSample /\ C15_EqualDeltas) =>
          IF chan' = Append(chan, <<idx, unique_solid_kmers>>)
          THEN IF idx > MinReads THEN C5_Stops ELSE C5_Continues
          ELSE pc' = "done" /\ result' = "send_error" /\ idx' = idx]_vars

\* C15 witness: three samples with the same non-zero delta, two zero
\* accelerations, and the scan stopped at the third, the first past MinReads.
C15_Witness ==
  /\ result = "stop"
  /\ Len(lines) = 3
  /\ C15_EqualDeltas
  /\ SampleDelta(1) >= 1
  /\ accel_history = <<0, 0>>
  /\ lines[2].reads <= MinReads
  /\ idx > MinReads

\* C16: the acceleration window lags the growth window by one sample: after
\* n >= 1 samples it holds min(n - 1, WindowCap) entries, and they are, oldest
\* first, the difference between the growth delta of each of the last samples
\* and the delta of the sample before it, eviction or not.
C16_AccelLagsGrowth ==
  LET n == Len(lines)
      m == Len(accel_history)
  IN  /\ m = (IF n = 0 THEN 0 ELSE Min(n - 1, WindowCap))
      /\ \A j \in 1..m :
           accel_history[j] =
             SampleDelta(n - m + j) - SampleDelta(n - m + j - 1)

\* C16 witness: the growth window has evicted twice, the acceleration window
\* is full after its own first eviction and holds two different values.
C16_Witness ==
  /\ Len(lines) = WindowCap + 2
  /\ Len(accel_history) = WindowCap
  /\ accel_history[1] # accel_history[WindowCap]
  /\ accel_history[WindowCap] # 0

\* The snapshots the scan has pushed, in the order pushed, and the snapshots
\* written to a socket, in the order written.
PushedSnapshots == [j \in 1..nsent |-> <<lines[j].reads, lines[j].kmers>>]
WrittenSnapshots == [j \in 1..Len(delivered) |-> delivered[j][2]]

\* C17: the channel never holds more than ChanCap snapshots, a send on a full
\* channel does not complete, and while the receiver is served every snapshot
\* pushed is either written to a consumer or still queued, in the order
\* pushed: none is lost.
C17_NoSnapshotLost ==
  /\ Len(chan) <= ChanCap
  /\ (pc = "send" /\ Len(chan) = ChanCap /\ server # "failed") =>
        ~ENABLED ScanNext
  /\ server = "listening" => PushedSnapshots = WrittenSnapshots \o chan

\* C18: the sampling step (window update, status line, send, stop decision)
\* never changes the map or the solid counter, and when the send fails they
\* are what they were before the send, then and afterwards.
C18_SamplingLeavesCounts ==
  [][/\ (pc = "endrec" \/ pc = "send") =>
          UNCHANGED <<unique_kmers, unique_solid_kmers>>
     /\ (result' = "send_error") =>
          UNCHANGED <<unique_kmers, unique_solid_kmers>>]_vars

\* C18 witness: a send failed after an earlier one had completed, with solid
\* and non-solid entries in the map.
C18_Witness ==
  /\ result = "send_error"
  /\ nsent >= 1
  /\ unique_solid_kmers >= 1
  /\ \E x \in DOMAIN unique_kmers : ~unique_kmers[x]

\* C19: whenever the scan has stopped early, at least two samples were taken
\* and the acceleration window was not empty: the stop never rests on the
\* mean 0 of an empty window, whatever the lengths of the records.
C19_StopNeedsAcceleration ==
  result = "stop" =>
     /\ Len(lines) >= 2
     /\ accel_history # <<>>

\* C20: at most one connection consumes from the channel at a time (a second
\* one gets nothing until the first has ended), and the snapshots written to
\* sockets are distinct pushed snapshots, in the order pushed.
C20_OneConsumerAtATime ==
  /\ \A a, b \in DOMAIN delivered :
       (a < b /\ delivered[a][1] # delivered[b][1]) =>
          conn[delivered[a][1]] = "closed"
  /\ \A a \in DOMAIN delivered :
       /\ \E j \in DOMAIN PushedSnapshots : PushedSnapshots[j] = delivered[a][2]
       /\ \A b \in DOMAIN delivered :
            a < b => delivered[a][2][1] < delivered[b][2][1]

\* C20 witness: the first connection was served and ended on a failed write
\* while the second was waiting; the second was served afterwards.
C20_Witness ==
  /\ Len(delivered) >= 2
  /\ delivered[1][1] = 1
  /\ delivered[Len(delivered)][1] = 2
  /\ conn[1] = "closed"
  /\ lost = 1

====
